---------------------------- MODULE Spec2Model ----------------------------
(***************************************************************************)
(* A model of src/main.py: an image is read and base64-encoded             *)
(* (encode_image_to_base64), embedded in an XML document built from a      *)
(* list of element dictionaries (create_xml_file / _add_element), and the  *)
(* document is parsed again and scanned two levels below its root for long *)
(* text nodes, each of which is base64-decoded and stored as a file        *)
(* (convert_xml_images / save_base64_to_image).                            *)
(*                                                                         *)
(* Python values: a str and a bytes object are sequences of code points /  *)
(* byte values; None is the value None below; a dict is a function whose   *)
(* DOMAIN is its key set; a list is a sequence.                            *)
(***************************************************************************)
EXTENDS Integers, Sequences, FiniteSets, TLC

\* Python's None where a str or bytes value is expected: no str equals it,
\* since the characters of a str are code points >= 0.
None == <<-1>>

\* The empty dict.
EmptyDict == [k \in {} |-> ""]

(***************************************************************************)
(* Bounds of the model.                                                    *)
(***************************************************************************)
\* Largest image file, in bytes.  76 bytes is the first size whose base64
\* text (104 characters) is longer than the scanner's threshold.
MaxImageLen == 78
\* Largest number of depth-2 elements of a document handed to the scanner.
MaxElems == 3
\* Largest number of element dictionaries (all levels together) in a list
\* handed to create_xml_file.
MaxNodes == 4

(***************************************************************************)
(* base64 (the standard library codec behind b64encode / b64decode).       *)
(***************************************************************************)
\* The character of the base64 alphabet with index i (0..63); 61 is '='.
B64Char(i) ==
    IF i < 26 THEN 65 + i
    ELSE IF i < 52 THEN 97 + (i - 26)
    ELSE IF i < 62 THEN 48 + (i - 52)
    ELSE IF i = 62 THEN 43 ELSE 47

\* The index of character c in the base64 alphabet, 64 when c is not in it.
B64Index(c) ==
    IF c \in 65..90 THEN c - 65
    ELSE IF c \in 97..122 THEN c - 71
    ELSE IF c \in 48..57 THEN c + 4
    ELSE IF c = 43 THEN 62
    ELSE IF c = 47 THEN 63 ELSE 64

\* base64.b64encode(b).decode('utf-8'): every three bytes become four
\* characters of six bits each; a last group of one or two bytes is filled
\* with zero bits and padded with '=' to four characters.
b64encode(b) ==
    LET n == Len(b)
        byte(j) == IF j <= n THEN b[j] ELSE 0
        char(k) ==
            LET g == ((k - 1) \div 4) * 3
                r == (k - 1) % 4
            IN  IF r = 0 THEN B64Char(byte(g + 1) \div 4)
                ELSE IF r = 1 THEN
                    B64Char((byte(g + 1) % 4) * 16 + (byte(g + 2) \div 16))
                ELSE IF r = 2 THEN
                    IF g + 2 > n THEN 61
                    ELSE B64Char((byte(g + 2) % 16) * 4 + (byte(g + 3) \div 64))
                ELSE IF g + 3 > n THEN 61 ELSE B64Char(byte(g + 3) % 64)
    IN  [k \in 1..(((n + 2) \div 3) * 4) |-> char(k)]

\* binascii.a2b_base64 in its default (non-strict) mode, as b64decode calls
\* it.  Characters outside the alphabet are skipped.  A '=' counts as
\* padding only at position 2 or 3 of a quad, and the pad sequence that
\* completes the quad (one '=' at position 3, two at position 2 with no
\* alphabet character between them) ends the input.  Input that ends inside
\* a quad raises binascii.Error.  The result is [ok |-> TRUE, data |-> bytes]
\* or [ok |-> FALSE, data |-> <<>>].
a2b_base64(s) ==
    LET IsData(c) == c # 61 /\ B64Index(c) < 64
        \* the number of alphabet characters before position p
        Before(p) == Cardinality({q \in 1..(p - 1) : IsData(s[q])})
        \* whether a '=' precedes p with no alphabet character in between
        PadBefore(p) ==
            \E q \in 1..(p - 1) :
                s[q] = 61 /\ \A m \in (q + 1)..(p - 1) : ~IsData(s[m])
        Stops == {p \in 1..Len(s) :
                    /\ s[p] = 61
                    /\ \/ Before(p) % 4 = 3
                       \/ Before(p) % 4 = 2 /\ PadBefore(p)}
        end == IF Stops = {} THEN Len(s) + 1
               ELSE CHOOSE p \in Stops : \A q \in Stops : p <= q
        d == SelectSeq(SubSeq(s, 1, end - 1), IsData)
        quad_pos == Len(d) % 4
        sext(k) == B64Index(d[k])
        byte(j) ==
            LET g == ((j - 1) \div 3) * 4
                r == (j - 1) % 3
            IN  IF r = 0 THEN sext(g + 1) * 4 + (sext(g + 2) \div 16)
                ELSE IF r = 1 THEN
                    (sext(g + 2) % 16) * 16 + (sext(g + 3) \div 4)
                ELSE (sext(g + 3) % 4) * 64 + sext(g + 4)
        nbytes == (Len(d) \div 4) * 3 + (IF quad_pos = 0 THEN 0 ELSE quad_pos - 1)
    IN  IF Stops = {} /\ quad_pos # 0 THEN [ok |-> FALSE, data |-> <<>>]
        ELSE [ok |-> TRUE, data |-> [j \in 1..nbytes |-> byte(j)]]

\* base64.b64decode(base64_string)
b64decode(s) == a2b_base64(s)

(***************************************************************************)
(* Exceptions: the classes the modelled calls raise, and the except        *)
(* clauses that catch them.                                                *)
(***************************************************************************)
\* No exception.
NoExc == "none"

\* The base class of an exception class.
Super(cls) ==
    CASE cls = "FileNotFoundError" -> "OSError"
      [] cls = "PermissionError"   -> "OSError"
      [] cls = "OSError"           -> "Exception"
      [] cls = "binascii.Error"    -> "ValueError"
      [] cls = "ValueError"        -> "Exception"
      [] cls = "ParseError"        -> "SyntaxError"
      [] cls = "SyntaxError"       -> "Exception"
      [] cls = "TypeError"         -> "Exception"
      [] OTHER                     -> "BaseException"

IsInstance(exc, cls) ==
    \/ exc = cls
    \/ Super(exc) = cls
    \/ Super(Super(exc)) = cls

\* Whether a try statement with these except clauses catches exc.
Caught(handlers, exc) ==
    \E i \in 1..Len(handlers) : IsInstance(exc, handlers[i])

\* encode_image_to_base64 without its `except Exception` clause.
EncodeHandlers_OnlyNotFound == << "FileNotFoundError" >>

\* The except clauses of each function.
EncodeHandlers  == << "FileNotFoundError", "Exception" >>
CreateHandlers  == << "Exception" >>
ConvertHandlers == << "Exception" >>
SaveHandlers    == << "binascii.Error", "Exception" >>

(***************************************************************************)
(* The file system.                                                        *)
(***************************************************************************)
\* A path's state: no file, a file that cannot be opened, or a file.
Missing    == [state |-> "missing"]
Unreadable == [state |-> "unreadable"]
File(d)    == [state |-> "file", data |-> d]
\* An XML file whose content is not well-formed (a truncated write).
Malformed  == [state |-> "malformed"]

\* os.path.join(output_folder, image_filename)
PathJoin(folder, name) == folder \o "/" \o name

(***************************************************************************)
(* encode_image_to_base64                                                  *)
(***************************************************************************)
\* encode_image_to_base64 with str(...) for .decode('utf-8'): the text is
\* the repr of the bytes object, b'...'.
encode_image_to_base64_Repr(image) ==
    IF image.state = "file"
    THEN [ret |-> << 98, 39 >> \o b64encode(image.data) \o << 39 >>,
          escaped |-> NoExc]
    ELSE [ret |-> None, escaped |-> NoExc]

\* The result is [ret |-> the returned value, escaped |-> the exception
\* that leaves the function, NoExc when none does].
encode_image_to_base64(image) ==
    LET raised == IF image.state = "missing" THEN "FileNotFoundError"
                  ELSE IF image.state = "unreadable" THEN "PermissionError"
                  ELSE NoExc
    IN  IF raised = NoExc
        THEN [ret |-> b64encode(image.data), escaped |-> NoExc]
        ELSE IF Caught(EncodeHandlers, raised)
        THEN [ret |-> None, escaped |-> NoExc]
        ELSE [ret |-> None, escaped |-> raised]

(***************************************************************************)
(* ElementTree: elements, the writer and the parser.                       *)
(***************************************************************************)
\* ET.Element(tag): no attributes, no text, no children.
Element(tag) ==
    [tag |-> tag, attrib |-> EmptyDict, text |-> None, children |-> <<>>]

\* The entity the writer puts for a character of text (_escape_cdata):
\* '&' -> "&amp;", '<' -> "&lt;", '>' -> "&gt;".
EscapeChar(c) ==
    IF c = 38 THEN << 38, 97, 109, 112, 59 >>
    ELSE IF c = 60 THEN << 38, 108, 116, 59 >>
    ELSE IF c = 62 THEN << 38, 103, 116, 59 >>
    ELSE << c >>

RECURSIVE EscapeRange(_, _, _)
EscapeRange(s, lo, hi) ==
    IF lo > hi THEN <<>>
    ELSE IF lo = hi THEN EscapeChar(s[lo])
    ELSE LET mid == (lo + hi) \div 2
         IN  EscapeRange(s, lo, mid) \o EscapeRange(s, mid + 1, hi)

escape_cdata(text) == EscapeRange(text, 1, Len(text))

\* The character an entity reference stands for, by the name between '&'
\* and ';'.
EntityChar(name) ==
    IF name = << 97, 109, 112 >> THEN 38
    ELSE IF name = << 108, 116 >> THEN 60
    ELSE IF name = << 103, 116 >> THEN 62
    ELSE 63

\* What the parser makes of position i of character data: an entity
\* reference becomes its character, the rest of the reference nothing, any
\* other character itself.
UnescapeAt(s, i) ==
    LET \* the '&' that opens a reference still open at position i
        Opens == {p \in 1..i : s[p] = 38 /\ \A q \in p..(i - 1) : s[q] # 59}
        Ends(p) == {q \in p..Len(s) : s[q] = 59}
        End(p) == CHOOSE q \in Ends(p) : \A r \in Ends(p) : q <= r
    IN  IF s[i] = 38 /\ Ends(i) # {}
        THEN << EntityChar(SubSeq(s, i + 1, End(i) - 1)) >>
        ELSE IF Opens # {} THEN <<>>
        ELSE << s[i] >>

RECURSIVE UnescapeRange(_, _, _)
UnescapeRange(s, lo, hi) ==
    IF lo > hi THEN <<>>
    ELSE IF lo = hi THEN UnescapeAt(s, lo)
    ELSE LET mid == (lo + hi) \div 2
         IN  UnescapeRange(s, lo, mid) \o UnescapeRange(s, mid + 1, hi)

unescape(body) == UnescapeRange(body, 1, Len(body))

\* tree.write(filename, encoding='utf-8', xml_declaration=True): the content
\* written for an element.  An element whose text is None or '' gets no
\* character data (it is written <tag /> when it has no children either);
\* any other text is written escaped.
RECURSIVE Serialize(_)
Serialize(e) ==
    [tag      |-> e.tag,
     attrib   |-> e.attrib,
     body     |-> IF e.text = None \/ e.text = <<>> THEN <<>>
                  ELSE escape_cdata(e.text),
     children |-> [i \in 1..Len(e.children) |-> Serialize(e.children[i])]]

\* ET.parse(xml_file_path).getroot() on written content: an element without
\* character data has text None, otherwise the unescaped character data.
RECURSIVE ParseElement(_)
ParseElement(x) ==
    [tag      |-> x.tag,
     attrib   |-> x.attrib,
     text     |-> IF x.body = <<>> THEN None ELSE unescape(x.body),
     children |-> [i \in 1..Len(x.children) |-> ParseElement(x.children[i])]]

(***************************************************************************)
(* create_xml_file and its helper _add_element                             *)
(***************************************************************************)
\* `if not tag` on tag = element_data.get('tag'): the key is absent or its
\* value is the empty string.
TagMissing(element_data) ==
    \/ "tag" \notin DOMAIN element_data
    \/ element_data.tag = ""

\* `if text:` instead of `if text is not None`.
TextGiven_Truthy(element_data) ==
    /\ "text" \in DOMAIN element_data
    /\ element_data.text # None
    /\ element_data.text # <<>>

\* `if text is not None` on text = element_data.get('text')
TextGiven(element_data) ==
    /\ "text" \in DOMAIN element_data
    /\ element_data.text # None

\* _add_element(parent, element_data): the parent after the call.  The
\* element is appended to the parent (ET.SubElement), given the attributes
\* and the text, and the children are added under it in order.
RECURSIVE _add_element(_, _), AddAll(_, _)
_add_element(parent, element_data) ==
    IF TagMissing(element_data) THEN parent
    ELSE LET attributes == IF "attributes" \in DOMAIN element_data
                           THEN element_data.attributes ELSE EmptyDict
             children == IF "children" \in DOMAIN element_data
                         THEN element_data.children ELSE <<>>
             element == [tag      |-> element_data.tag,
                         attrib   |-> attributes,
                         text     |-> IF TextGiven(element_data)
                                      THEN element_data.text ELSE None,
                         children |-> <<>>]
         IN  [parent EXCEPT
                 !.children = Append(@, AddAll(element, children))]

\* `for element_data in elements_data: _add_element(parent, element_data)`
AddAll(parent, elements_data) ==
    IF elements_data = <<>> THEN parent
    ELSE AddAll(_add_element(parent, Head(elements_data)), Tail(elements_data))

\* create_xml_file taking the first dictionary for the root itself: its
\* children are attached to the root directly.
BuildTree_Unwrapped(root_name, elements_data) ==
    AddAll(Element(root_name),
           IF elements_data # <<>> /\ "children" \in DOMAIN Head(elements_data)
           THEN Head(elements_data).children ELSE <<>>)

\* The tree create_xml_file builds (steps 1 and 2).
BuildTree(root_name, elements_data) ==
    AddAll(Element(root_name), elements_data)

\* What tree.write leaves at the path: the document when it succeeds; when
\* the file cannot be opened, what was there; when the write breaks off, a
\* truncated file.
WriteOutcomes == {"ok", "open_fails", "write_fails"}
WriteXml(old, root, io) ==
    IF io = "ok" THEN File(Serialize(root))
    ELSE IF io = "open_fails" THEN old
    ELSE Malformed

\* create_xml_file(filename, root_name, elements_data) with the outcome io
\* of the write: the tree built, the file left at filename and the value
\* returned (True or False); escaped is the exception leaving the function.
\* Every call modelled passes elements_data, so its default is not used.
create_xml_file(old, root_name, elements_data, io) ==
    LET root == BuildTree(root_name, elements_data)
        raised == IF io = "ok" THEN NoExc ELSE "PermissionError"
    IN  [root |-> root,
         file |-> WriteXml(old, root, io),
         ret  |-> IF raised = NoExc THEN "True" ELSE "False",
         escaped |-> IF raised = NoExc \/ Caught(CreateHandlers, raised)
                     THEN NoExc ELSE raised]

(***************************************************************************)
(* save_base64_to_image                                                    *)
(***************************************************************************)
\* The folder the images are stored in.
OutputFolder == "extracted_images"

\* What the file system does to the call: everything works, the folder
\* cannot be created, or the image file cannot be opened for writing.
SaveOutcomes == {"ok", "makedirs_fails", "open_fails"}

\* The value the function returns.  No path of it has a return statement:
\* after a store and after a caught failure alike it returns None.
SaveReturn(raised) == None

\* save_base64_to_image(base64_string, image_filename) with the outcome io
\* of its file operations, on the folders dirs and the files fs.  raised is
\* the exception its try block raised (NoExc when the image was stored),
\* escaped the exception that leaves the function.
save_base64_to_image(base64_string, image_filename, io, dirs, fs) ==
    LET output_file_path == PathJoin(OutputFolder, image_filename)
        image_data == b64decode(base64_string)
        raised == IF io = "makedirs_fails" THEN "PermissionError"
                  ELSE IF ~image_data.ok THEN "binascii.Error"
                  ELSE IF io = "open_fails" THEN "PermissionError"
                  ELSE NoExc
    IN  [dirs |-> IF io = "makedirs_fails" THEN dirs
                  ELSE dirs \cup {OutputFolder},
         fs   |-> IF raised # NoExc THEN fs
                  ELSE [q \in DOMAIN fs \cup {output_file_path} |->
                           IF q = output_file_path THEN image_data.data
                           ELSE fs[q]],
         path    |-> output_file_path,
         raised  |-> raised,
         ret     |-> SaveReturn(raised),
         escaped |-> IF raised = NoExc \/ Caught(SaveHandlers, raised)
                     THEN NoExc ELSE raised]

(***************************************************************************)
(* convert_xml_images                                                      *)
(***************************************************************************)
\* The length above which the text of a depth-2 element is taken to be an
\* image.
Threshold == 100

\* `>= 100` instead of `> 100`.
IsPayload_AtLeast(text) == Len(text) >= Threshold

\* `if len(level_2_child.text) > 100`, for a text that is a str.
IsPayload(text) == Len(text) > Threshold

\* save_base64_to_image called without a file name: its default is used.
ImageFilename_Default(image_index) == "extracted_image.jpg"

\* f"extracted_image{image_index}.jpg"
ImageFilename(image_index) ==
    "extracted_image" \o ToString(image_index) \o ".jpg"

\* The loop without `image_index += 1`.
NextImageIndex_Stuck(image_index, saved) == image_index

\* `image_index += 1` after the call of save_base64_to_image, whose result
\* saved the scanner does not look at.
NextImageIndex(image_index, saved) == image_index + 1

\* ET.parse(xml_file_path): the exception it raises, NoExc when it parses.
ParseRaises(xml) ==
    IF xml.state = "missing" THEN "FileNotFoundError"
    ELSE IF xml.state = "malformed" THEN "ParseError"
    ELSE NoExc

(***************************************************************************)
(* The main block.                                                         *)
(***************************************************************************)
\* 'scenery.png'
ImageFile == << 115, 99, 101, 110, 101, 114, 121, 46, 112, 110, 103 >>

\* str(None), as an f-string formats it.
NoneStr == << 78, 111, 110, 101 >>

\* f'{value}'
Format(value) == IF value = None THEN NoneStr ELSE value

\* my_xml_data
MyXmlData(image_file, base64_string) ==
    << [tag        |-> "root",
        attributes |-> [version |-> "1.0", encoding |-> "UTF-8"],
        children   |->
            << [tag        |-> "image_title",
                attributes |-> [id |-> "1", type |-> "image"],
                text       |-> Format(image_file) \o << 46 >>,
                children   |-> <<>>],
               [tag        |-> "image_string",
                attributes |-> [id |-> "2", type |-> "binary"],
                text       |-> Format(base64_string),
                children   |-> <<>>],
               [tag |-> "end_tag"] >>] >>

\* Where the main block goes after create_xml_file returned ret: both
\* branches of the if only print, and convert_xml_images is called next.
AfterCreate(ret) == "convert"

(***************************************************************************)
(* The state.                                                              *)
(***************************************************************************)
VARIABLES
    pc,             \* where the program is
    image,          \* the file scenery.png
    base64_string,  \* main's base64_string
    elements_data,  \* the elements_data argument of create_xml_file
    tree,           \* the root element create_xml_file built
    created,        \* what create_xml_file returned
    xml,            \* the file image.xml
    root,           \* convert_xml_images: the parsed root
    li,             \* convert_xml_images: the depth-1 child the scan is in
    lj,             \* convert_xml_images: the depth-2 children visited in it
    image_index,    \* convert_xml_images: image_index
    visited,        \* the depth-2 elements visited so far, as <<li, lj>>
    calls,          \* the calls of save_base64_to_image so far
    scan_error,     \* the exception that ended convert_xml_images
    dirs,           \* the folders that exist
    files,          \* the files under extracted_images/
    stages          \* the stages of main that were started

vars == << pc, image, base64_string, elements_data, tree, created, xml, root,
           li, lj, image_index, visited, calls, scan_error, dirs, files,
           stages >>

scanVars == << root, li, lj, image_index, visited, calls, scan_error, dirs,
               files >>

\* No file under extracted_images/.
NoFiles == [q \in {} |-> <<>>]

(***************************************************************************)
(* The inputs.                                                             *)
(***************************************************************************)
\* The bytes of an image file of n bytes.
ImageBytes(n) == [i \in 1..n |-> (i * 37 + 11) % 256]

\* The states scenery.png can be in.
Images == {Missing, Unreadable} \cup {File(ImageBytes(n)) : n \in 0..MaxImageLen}

\* The largest number of bytes whose base64 text is not longer than the
\* threshold.
PlainBytes == (Threshold \div 4) * 3

\* An image.xml left by an earlier run of the program on another image.
StaleXml ==
    File(Serialize(BuildTree("root",
        MyXmlData(ImageFile,
                  b64encode([i \in 1..(PlainBytes + 1) |-> (i * 5) % 256])))))

\* An image.xml another program left: one image two levels below the root.
OtherXml ==
    File(Serialize(
        [Element("root") EXCEPT !.children =
            << [Element("group") EXCEPT !.children =
                  << [Element("item") EXCEPT
                         !.text = b64encode(ImageBytes(PlainBytes + 1))] >>] >>]))

\* The texts of the depth-2 elements of the documents scanned: no text,
\* base64 text of exactly the threshold length, that text with one more
\* alphabet character (too long to be skipped, and not decodable), and
\* base64 text of the next length.
TextPool ==
    { None,
      b64encode(ImageBytes(PlainBytes)),
      b64encode(ImageBytes(PlainBytes)) \o << 66 >>,
      b64encode(ImageBytes(PlainBytes + 1)) }

\* A depth-1 element with depth-2 elements of the given texts.
Group(texts) ==
    [Element("group") EXCEPT
        !.children = [i \in 1..Len(texts) |->
                         [Element("item") EXCEPT !.text = texts[i]]]]

TextSeqs == UNION {[1..e -> TextPool] : e \in 0..MaxElems}

\* The documents scanned: up to two depth-1 elements with up to MaxElems
\* depth-2 elements between them.
Docs ==
    {[Element("root") EXCEPT !.children = gs] :
        gs \in {<<>>} \cup {<< Group(a) >> : a \in TextSeqs}
               \cup {<< Group(p[1]), Group(p[2]) >> :
                        p \in {q \in TextSeqs \X TextSeqs :
                                  Len(q[1]) + Len(q[2]) <= MaxElems}}}

\* The element dictionaries create_xml_file is tried on, without their
\* children: with and without a tag, attributes and text; a text can be ''
\* and can hold a character the writer escapes.
Heads ==
    { [tag |-> "a"],
      [tag |-> "b", text |-> <<>>, attributes |-> [id |-> "1"]],
      [tag |-> "c", text |-> << 120, 60, 121 >>],
      [text |-> << 120 >>],
      [tag |-> "", attributes |-> [id |-> "2"]] }

\* The element dictionary h with the children kids (no 'children' key when
\* there are none).
WithChildren(h, kids) ==
    IF kids = <<>> THEN h ELSE h @@ [children |-> kids]

\* The lists of element dictionaries with n dictionaries, children of all
\* levels counted: a first dictionary with k dictionaries below it, and
\* the rest of the list.
RECURSIVE Forests(_)
Forests(n) ==
    IF n = 0 THEN {<<>>}
    ELSE UNION { { << WithChildren(h, kids) >> \o rest :
                       h \in Heads, kids \in Forests(k),
                       rest \in Forests(n - 1 - k) } : k \in 0..(n - 1) }

(***************************************************************************)
(* Initial states.                                                         *)
(***************************************************************************)
InitCommon ==
    /\ base64_string = None
    /\ tree = Element("")
    /\ created = "unset"
    /\ root = Element("")
    /\ li = 0
    /\ lj = 0
    /\ image_index = 0
    /\ visited = <<>>
    /\ calls = <<>>
    /\ scan_error = NoExc
    /\ dirs = {}
    /\ files = NoFiles
    /\ stages = <<>>

\* The program is started: scenery.png is in any of its states, image.xml
\* is absent or left from an earlier run or by another program,
\* extracted_images/ is empty.
Init ==
    /\ pc = "encode"
    /\ image \in Images
    /\ xml \in {Missing, StaleXml, OtherXml}
    /\ elements_data = <<>>
    /\ InitCommon

\* convert_xml_images is called on a file in any state.
InitScan ==
    /\ pc = "convert"
    /\ image = Missing
    /\ xml \in {Missing, Malformed} \cup {File(Serialize(d)) : d \in Docs}
    /\ elements_data = <<>>
    /\ InitCommon

\* create_xml_file is called on any list of element dictionaries.
InitBuild ==
    /\ pc = "create"
    /\ image = Missing
    /\ xml = Missing
    /\ \E n \in 0..MaxNodes :
          IF n = 0 THEN elements_data = <<>>
          ELSE \E k \in 0..(n - 1) :
                 \E h \in Heads, kids \in Forests(k), rest \in Forests(n - 1 - k) :
                    elements_data = << WithChildren(h, kids) >> \o rest
    /\ InitCommon

(***************************************************************************)
(* The steps of the main block.                                            *)
(***************************************************************************)
\* base64_string = encode_image_to_base64(image_file)
EncodeImage ==
    /\ pc = "encode"
    /\ LET r == encode_image_to_base64(image)
       IN  /\ base64_string' = r.ret
           /\ pc' = IF r.escaped # NoExc THEN "crashed" ELSE "build"
    /\ stages' = Append(stages, "encode")
    /\ UNCHANGED << image, elements_data, tree, created, xml >>
    /\ UNCHANGED scanVars

\* my_xml_data = [...]
BuildData ==
    /\ pc = "build"
    /\ elements_data' = MyXmlData(ImageFile, base64_string)
    /\ pc' = "create"
    /\ UNCHANGED << image, base64_string, tree, created, xml, stages >>
    /\ UNCHANGED scanVars

\* create_xml_file(filename="image.xml", root_name="root",
\*                 elements_data=...) and the if statement on its result
CreateXmlFile ==
    /\ pc = "create"
    /\ \E io \in WriteOutcomes :
          LET r == create_xml_file(xml, "root", elements_data, io)
          IN  /\ tree' = r.root
              /\ xml' = r.file
              /\ created' = r.ret
              /\ pc' = IF r.escaped # NoExc THEN "crashed"
                       ELSE AfterCreate(r.ret)
    /\ stages' = Append(stages, "create")
    /\ UNCHANGED << image, base64_string, elements_data >>
    /\ UNCHANGED scanVars

(***************************************************************************)
(* The steps of convert_xml_images.                                        *)
(***************************************************************************)
\* Where an exception raised in the try block of convert_xml_images
\* leaves the program: the except clause prints it and the function returns.
AfterRaise(exc) ==
    IF Caught(ConvertHandlers, exc) THEN "done" ELSE "crashed"

\* tree = ET.parse(xml_file_path); root = tree.getroot(); image_index = 0
ConvertXmlImages ==
    /\ pc = "convert"
    /\ stages' = Append(stages, "extract")
    /\ LET raised == ParseRaises(xml)
       IN  IF raised # NoExc
           THEN /\ pc' = AfterRaise(raised)
                /\ scan_error' = raised
                /\ UNCHANGED << root, li, lj, image_index >>
           ELSE /\ pc' = "outer"
                /\ root' = ParseElement(xml.data)
                /\ li' = 0
                /\ lj' = 0
                /\ image_index' = 0
                /\ UNCHANGED scan_error
    /\ UNCHANGED << image, base64_string, elements_data, tree, created, xml,
                    visited, calls, dirs, files >>

\* for level_1_child in root: the next depth-1 child
OuterNext ==
    /\ pc = "outer"
    /\ li < Len(root.children)
    /\ li' = li + 1
    /\ lj' = 0
    /\ pc' = "inner"
    /\ UNCHANGED << image, base64_string, elements_data, tree, created, xml,
                    root, image_index, visited, calls, scan_error, dirs,
                    files, stages >>

\* for level_1_child in root: no child is left, the function returns
OuterExit ==
    /\ pc = "outer"
    /\ li = Len(root.children)
    /\ pc' = "done"
    /\ UNCHANGED << image, base64_string, elements_data, tree, created, xml,
                    stages >>
    /\ UNCHANGED scanVars

\* for level_2_child in level_1_child: the body of the loop for the next
\* depth-2 child
InnerVisit ==
    /\ pc = "inner"
    /\ lj < Len(root.children[li].children)
    /\ lj' = lj + 1
    /\ visited' = Append(visited, << li, lj + 1 >>)
    /\ LET text == root.children[li].children[lj + 1].text
       IN  IF text = None
           THEN \* len(None) raises TypeError
                /\ pc' = AfterRaise("TypeError")
                /\ scan_error' = "TypeError"
                /\ UNCHANGED << image_index, calls, dirs, files >>
           ELSE IF IsPayload(text)
           THEN \E io \in SaveOutcomes :
                  LET name == ImageFilename(image_index)
                      r == save_base64_to_image(text, name, io, dirs, files)
                  IN  /\ dirs' = r.dirs
                      /\ files' = r.fs
                      /\ calls' = Append(calls,
                                    [at       |-> << li, lj + 1 >>,
                                     index    |-> image_index,
                                     path     |-> r.path,
                                     raised   |-> r.raised,
                                     returned |-> r.ret])
                      /\ IF r.escaped # NoExc
                         THEN /\ pc' = AfterRaise(r.escaped)
                              /\ scan_error' = r.escaped
                              /\ UNCHANGED image_index
                         ELSE /\ pc' = "inner"
                              /\ image_index' =
                                     NextImageIndex(image_index, r.ret)
                              /\ UNCHANGED scan_error
           ELSE /\ pc' = "inner"
                /\ UNCHANGED << image_index, calls, scan_error, dirs, files >>
    /\ UNCHANGED << image, base64_string, elements_data, tree, created, xml,
                    root, li, stages >>

\* for level_2_child in level_1_child: no child is left
InnerExit ==
    /\ pc = "inner"
    /\ lj = Len(root.children[li].children)
    /\ pc' = "outer"
    /\ UNCHANGED << image, base64_string, elements_data, tree, created, xml,
                    root, li, lj, image_index, visited, calls, scan_error,
                    dirs, files, stages >>

Scan == ConvertXmlImages \/ OuterNext \/ OuterExit \/ InnerVisit \/ InnerExit

(***************************************************************************)
(* Specifications.                                                         *)
(***************************************************************************)
\* One run of the program.
Next == EncodeImage \/ BuildData \/ CreateXmlFile \/ Scan

Spec == Init /\ [][Next]_vars

\* One call of convert_xml_images.
NextScan == Scan

SpecScan == InitScan /\ [][NextScan]_vars

\* One call of create_xml_file.
NextBuild == CreateXmlFile

SpecBuild == InitBuild /\ [][NextBuild]_vars

(***************************************************************************)
(* Notions the properties are stated in.                                   *)
(***************************************************************************)
\* The depth-2 elements of an element tree r, as <<depth-1 index, index>>.
Depth2(r) ==
    UNION { {<< i, j >> : j \in 1..Len(r.children[i].children)} :
            i \in 1..Len(r.children) }

TextAt(r, p) == r.children[p[1]].children[p[2]].text

\* Document order of depth-2 elements.
DocBefore(p, q) == p[1] < q[1] \/ (p[1] = q[1] /\ p[2] < q[2])

Visited == {visited[k] : k \in 1..Len(visited)}
Classified == {calls[k].at : k \in 1..Len(calls)}

\* convert_xml_images parsed its file and has returned.
ScanReturned == pc = "done" /\ root # Element("")

HasText(p) == TextAt(root, p) # None

\* The path of the file with index k.
IndexPath(k) == "extracted_images/extracted_image" \o ToString(k) \o ".jpg"

\* The tags of a sequence of elements.
Tags(elems) == [i \in 1..Len(elems) |-> elems[i].tag]

(***************************************************************************)
(* The properties.                                                         *)
(***************************************************************************)

\* C1: a depth-2 element the scan has visited is classified as a payload
\* (passed to save_base64_to_image) if and only if its text is longer than
\* 100 characters: one of exactly 100 characters never is, a visited one of
\* 101 characters always is.
C1_StrictThreshold ==
    /\ \A p \in Depth2(root) :
          (HasText(p) /\ Len(TextAt(root, p)) = Threshold)
              => p \notin Classified
    /\ \A p \in Visited :
          (HasText(p) /\ Len(TextAt(root, p)) = Threshold + 1)
              => p \in Classified
    /\ \A p \in Visited :
          HasText(p) => (p \in Classified <=> Len(TextAt(root, p)) > Threshold)

C1_Witness ==
    \E p \in Visited, q \in Visited :
        /\ HasText(p) /\ Len(TextAt(root, p)) = Threshold
        /\ p \notin Classified
        /\ HasText(q) /\ Len(TextAt(root, q)) = Threshold + 1
        /\ q \in Classified

\* C2: the k-th classified payload (counting from 0) has index k and the
\* file name extracted_image{k}.jpg; the classified payloads are the visited
\* elements with long text, in document order, without gaps or repeats.
C2_IndicesInDocumentOrder ==
    /\ \A k \in 1..Len(calls) :
          /\ calls[k].index = k - 1
          /\ calls[k].path = IndexPath(k - 1)
    /\ \A k \in 1..(Len(calls) - 1) : DocBefore(calls[k].at, calls[k + 1].at)
    /\ Classified =
          {p \in Visited : HasText(p) /\ Len(TextAt(root, p)) > Threshold}

C2_Witness ==
    /\ Len(calls) >= 2
    /\ calls[1].at[1] # calls[2].at[1]
    /\ \E p \in Visited :
          /\ p \notin Classified
          /\ DocBefore(calls[1].at, p)
          /\ DocBefore(p, calls[2].at)

\* C3 (as claimed): a visited depth-2 element without text raises no
\* error, is not classified, and the scan goes on to visit every remaining
\* depth-2 element of the document.
C3_NoTextDoesNotEndTheScan ==
    \A p \in Visited :
        ~HasText(p) =>
            /\ scan_error = NoExc
            /\ p \notin Classified
            /\ ScanReturned => Visited = Depth2(root)

\* C4 (as claimed): when the scan has returned, every depth-2 element with
\* well-formed base64 text longer than 100 characters that lies after one
\* whose long text failed to decode was passed to save_base64_to_image,
\* decoded, and written unless the file system refused the write.
C4_LaterPayloadsStillStored ==
    ScanReturned =>
        \A k \in 1..Len(calls) :
            calls[k].raised = "binascii.Error" =>
                \A q \in Depth2(root) :
                    ( /\ DocBefore(calls[k].at, q)
                      /\ HasText(q)
                      /\ Len(TextAt(root, q)) > Threshold
                      /\ b64decode(TextAt(root, q)).ok )
                    => \E m \in 1..Len(calls) :
                          /\ calls[m].at = q
                          /\ \/ calls[m].raised = "PermissionError"
                             \/ /\ calls[m].raised = NoExc
                                /\ calls[m].path \in DOMAIN files
                                /\ files[calls[m].path] =
                                       b64decode(TextAt(root, q)).data

\* C5 (as claimed): a run on an image file that loads leaves exactly one
\* file under extracted_images/, holding the bytes of the image.
C5_OneFileForEveryImage ==
    (pc = "done" /\ image.state = "file") =>
        /\ Cardinality(DOMAIN files) = 1
        /\ \A q \in DOMAIN files : files[q] = image.data

\* C5 (amended): a run on an image file of at least 76 bytes (base64 text
\* longer than 100 characters) in which create_xml_file wrote image.xml and
\* the file system did not refuse the store leaves exactly one file under
\* extracted_images/, extracted_image0.jpg, holding the bytes of the image.
C5_OneFileForLongImages ==
    ( /\ pc = "done"
      /\ image.state = "file"
      /\ Len(image.data) > PlainBytes
      /\ created = "True"
      /\ \A k \in 1..Len(calls) : calls[k].raised # "PermissionError" )
    => /\ DOMAIN files = {IndexPath(0)}
       /\ files[IndexPath(0)] = image.data

C5_Witness ==
    /\ pc = "done"
    /\ image.state = "file"
    /\ Len(image.data) > PlainBytes
    /\ created = "True"
    /\ DOMAIN files = {IndexPath(0)}
    /\ files[IndexPath(0)] = image.data

\* C6: the tree built under the root has the shape of the list of element
\* dictionaries.  Each dictionary with a non-empty tag gives one element
\* with that tag, its attributes, its text exactly when a text is given
\* ('' included), and its children in order; a dictionary without a tag or
\* with an empty one gives nothing, nor do its descendants, and the
\* dictionaries around it are still attached.
RECURSIVE SameShape(_, _)
SameShape(elems, specs) ==
    LET tagged == SelectSeq(specs,
                      LAMBDA d : "tag" \in DOMAIN d /\ d.tag # "")
    IN  /\ Len(elems) = Len(tagged)
        /\ \A i \in 1..Len(tagged) :
              LET d == tagged[i]
                  e == elems[i]
              IN  /\ e.tag = d.tag
                  /\ e.attrib = IF "attributes" \in DOMAIN d
                                THEN d.attributes ELSE EmptyDict
                  /\ IF "text" \in DOMAIN d THEN e.text = d.text
                     ELSE e.text = None
                  /\ SameShape(e.children,
                               IF "children" \in DOMAIN d
                               THEN d.children ELSE <<>>)

C6_TreeHasShapeOfSpecs ==
    created # "unset" =>
        /\ tree.tag = "root"
        /\ SameShape(tree.children, elements_data)

\* A list of three dictionaries whose second one has no tag and has a
\* child: the first (with text '') and the third are attached, the second
\* and its child are not.
C6_Witness ==
    /\ created # "unset"
    /\ Len(elements_data) = 3
    /\ "tag" \notin DOMAIN elements_data[2]
    /\ "children" \in DOMAIN elements_data[2]
    /\ Len(tree.children) = 2
    /\ tree.children[1].text = <<>>
    /\ tree.children[2].tag = "c"
    /\ \A i \in 1..2 : tree.children[i].children = <<>>

\* A statement is left to execute: the guard of one of the steps holds.
CanStep ==
    \/ pc \in {"encode", "build", "create", "convert"}
    \/ pc = "outer" /\ li <= Len(root.children)
    \/ /\ pc = "inner"
       /\ li \in 1..Len(root.children)
       /\ lj <= Len(root.children[li].children)

\* C7: the stages of a run are started in the order encode, create,
\* extract, whatever fails: no exception leaves a stage, each stage is
\* followed by the next whatever it returned, and a run stops only at its
\* end, with all three stages started.
C7_StagesInOrder ==
    /\ pc # "crashed"
    /\ pc = "encode" => stages = <<>>
    /\ pc \in {"build", "create"} => stages = << "encode" >>
    /\ pc = "convert" => stages = << "encode", "create" >>
    /\ pc \in {"outer", "inner", "done"} =>
          stages = << "encode", "create", "extract" >>
    /\ pc # "done" => CanStep

\* A run in which the image did not load and create_xml_file returned
\* False, and which went through all three stages.
C7_Witness ==
    /\ pc = "done"
    /\ base64_string = None
    /\ created = "False"
    /\ stages = << "encode", "create", "extract" >>

\* C8 (as claimed): in the document the program writes, image_title,
\* image_string and end_tag are the children of the file's root element, and
\* the scan of it classifies nothing.
C8_WrittenDocumentIsOneLevelDeep ==
    (pc = "done" /\ created = "True") =>
        /\ Tags(xml.data.children) =
               << "image_title", "image_string", "end_tag" >>
        /\ calls = <<>>

\* C8 (amended): the document the program writes nests two levels deep.
\* The file's root element has one child, the element "root" of the sample
\* data, and image_title, image_string and end_tag are its children, at
\* depth 2; the scan visits image_string and classifies it, and nothing
\* else, exactly when its text is longer than 100 characters.
C8_WrittenDocumentIsTwoLevelsDeep ==
    created = "True" =>
        /\ xml.state = "file"
        /\ xml.data.tag = "root"
        /\ Tags(xml.data.children) = << "root" >>
        /\ Tags(xml.data.children[1].children) =
               << "image_title", "image_string", "end_tag" >>
        /\ \A i \in 1..3 : xml.data.children[1].children[i].children = <<>>
        /\ pc = "done" =>
              /\ << 1, 2 >> \in Visited
              /\ Classified \subseteq {<< 1, 2 >>}
              /\ Classified # {} <=> Len(Format(base64_string)) > Threshold

C8_Witness ==
    /\ pc = "done"
    /\ created = "True"
    /\ Classified = {<< 1, 2 >>}

\* C9 (as claimed): what convert_xml_images receives from a call of
\* save_base64_to_image that failed differs from what it receives from a
\* call that stored its image.
C9_FailureIsReturned ==
    \A k \in 1..Len(calls), m \in 1..Len(calls) :
        (calls[k].raised = NoExc /\ calls[m].raised # NoExc)
            => calls[k].returned # calls[m].returned

=============================================================================
